---------------------------- MODULE Spec2Model ----------------------------
(***************************************************************************)
(* A model of riew's App (src/src/app.rs): the file list and the current   *)
(* file index, the current image with its pan position, rotation, drag     *)
(* anchor and pixel probe, the zoom factor and the dirty flag, together    *)
(* with the public operations of App and the handlers of its event loop.   *)
(*                                                                         *)
(* f32 values are modelled as exact rationals <<n, d>> (d > 0, lowest      *)
(* terms); Option<T> values as sequences of length at most one.            *)
(***************************************************************************)
EXTENDS Integers, Sequences, FiniteSets, TLC

(***************************************************************************)
(* Bounds of the model.                                                    *)
(***************************************************************************)
\* change_file is tried with Some(0) .. Some(MaxIndex)
MaxIndex == 4
\* a behaviour is followed for at most MaxSteps operations
MaxSteps == 4
\* the event loop is followed for at most MaxEvents events
MaxEvents == 4
\* a pan position is followed while its denominators are at most MaxDen
MaxDen == 500

(***************************************************************************)
(* Option<T>                                                               *)
(***************************************************************************)
None == << >>
Some(x) == << x >>
IsSome(o) == o # << >>
unwrap_or(o, d) == IF o = << >> THEN d ELSE o[1]

(***************************************************************************)
(* f32 arithmetic, as exact rational arithmetic                            *)
(***************************************************************************)
Abs(n) == IF n < 0 THEN -n ELSE n

RECURSIVE GCD(_, _)
GCD(a, b) == IF b = 0 THEN a ELSE GCD(b, a % b)

Norm(n, d) ==
    LET g == GCD(Abs(n), d)
    IN  IF n = 0 THEN << 0, 1 >> ELSE << n \div g, d \div g >>

R(n) == << n, 1 >>
Q(n, d) == Norm(n, d)
\* sums and comparisons go through the least common denominator
RAdd(a, b) ==
    LET g == GCD(a[2], b[2])
    IN  Norm(a[1] * (b[2] \div g) + b[1] * (a[2] \div g), (a[2] \div g) * b[2])
RNeg(a) == << -a[1], a[2] >>
RSub(a, b) == RAdd(a, RNeg(b))
RMul(a, b) ==
    LET x == Norm(a[1], b[2])
        y == Norm(b[1], a[2])
    IN  << x[1] * y[1], x[2] * y[2] >>
RInv(a) == IF a[1] < 0 THEN << -a[2], -a[1] >> ELSE << a[2], a[1] >>
RDiv(a, b) == RMul(a, RInv(b))
RLt(a, b) ==
    LET g == GCD(a[2], b[2])
    IN  a[1] * (b[2] \div g) < b[1] * (a[2] \div g)
RLe(a, b) == ~RLt(b, a)
RGt(a, b) == RLt(b, a)
RGe(a, b) == RLe(b, a)
RMin(a, b) == IF RLt(b, a) THEN b ELSE a
RHalf(a) == RDiv(a, R(2))
\* f32::round: to the nearest integer, halves away from zero
RRound(a) ==
    IF a[1] >= 0
    THEN (2 * a[1] + a[2]) \div (2 * a[2])
    ELSE -((2 * (-a[1]) + a[2]) \div (2 * a[2]))
\* `as i32` of an f32: truncation toward zero
RTrunc(a) == IF a[1] >= 0 THEN a[1] \div a[2] ELSE -((-a[1]) \div a[2])

\* Rust's % on signed integers, b > 0: the remainder has the sign of the dividend
RemT(a, b) == IF a < 0 /\ a % b # 0 THEN (a % b) - b ELSE a % b

\* clamp!(v, lo, hi)
clamp(v, lo, hi) == IF RLt(v, lo) THEN lo ELSE IF RGt(v, hi) THEN hi ELSE v

\* std::f32::MAX, scaled down: a value above every coordinate of the model
F32_MAX == 1000

\* the range of i32
I32_MAX == 2147483647
I32_MIN == -I32_MAX - 1


(***************************************************************************)
(* The file system and the decoder the program runs against.  A path is    *)
(* its rank in PathNames, which is in PathBuf's order, so that comparing   *)
(* ranks is comparing paths.                                               *)
(***************************************************************************)
PathNames == << "c.jpg", "d", "d/a.PNG", "d/a.png", "d/a.txt", "d/b.png", "u", "x" >>
Paths == 1 .. Len(PathNames)

\* Path::extension
extension(p) == << "jpg", "", "PNG", "png", "txt", "png", "", "" >>[p]
\* Path::is_dir, Path::is_file ("x" does not exist)
is_dir(p) == PathNames[p] \in { "d", "u" }
is_file(p) == PathNames[p] \in { "c.jpg", "d/a.PNG", "d/a.png", "d/a.txt", "d/b.png" }
\* fs::read_dir: the entries in discovery order; "u" cannot be listed
read_dir(p) ==
    IF PathNames[p] = "d" THEN [ok |-> TRUE, entries |-> << 6, 3, 5, 4 >>]
    ELSE [ok |-> FALSE, entries |-> << >>]

\* str::to_lowercase, on the extensions of the model
to_lowercase(s) ==
    CASE s = "PNG" -> "png"
      [] s = "JPG" -> "jpg"
      [] OTHER -> s

EXTENSIONS == << "tga", "bmp", "pnm", "gif", "jpg", "jpeg", "tif", "tiff", "png", "webp" >>

is_image_path(p) ==
    /\ extension(p) # ""
    /\ \E i \in 1 .. Len(EXTENSIONS) : EXTENSIONS[i] = to_lowercase(extension(p))

\* Display::load_image: Some(<<width, height>>) of the decoded file, None on failure
load_image(p) ==
    CASE PathNames[p] = "c.jpg" -> Some(<< 4, 2 >>)
      [] PathNames[p] = "d/a.PNG" -> Some(<< 6, 16 >>)
      [] PathNames[p] = "d/b.png" -> Some(<< 16, 12 >>)
      [] OTHER -> None

\* Display::size values the window takes
OutputSizes == { << 8, 5 >>, << 12, 8 >> }

(***************************************************************************)
(* The state of App                                                        *)
(***************************************************************************)
VARIABLES
    files,          \* App.files: the paths, a sequence
    file_index,     \* App.file_index: Option<usize>
    image,          \* App.image: Option<CurrentImage>
    zoom,           \* App.zoom
    dirty,          \* App.dirty
    output_size,    \* Display::size(): the window's output size
    bg_color,       \* Display.bg_color, its r = g = b brightness
    panicked,       \* the process was aborted by a panic
    steps           \* the number of operations performed so far

vars == << files, file_index, image, zoom, dirty, output_size, bg_color, panicked, steps >>

State ==
    [ files |-> files, file_index |-> file_index, image |-> image, zoom |-> zoom,
      dirty |-> dirty, output_size |-> output_size, bg_color |-> bg_color,
      panicked |-> panicked ]

\* the state after the operation whose result is r
Becomes(r) ==
    /\ files' = r.files
    /\ file_index' = r.file_index
    /\ image' = r.image
    /\ zoom' = r.zoom
    /\ dirty' = r.dirty
    /\ output_size' = r.output_size
    /\ bg_color' = r.bg_color
    /\ panicked' = r.panicked

\* CurrentImage, as change_file builds it
CurrentImage(p, size) ==
    [ path |-> p, width |-> size[1], height |-> size[2],
      pos |-> << Q(size[1], 2), Q(size[2], 2) >>,
      angle |-> 0, drag |-> None, pixel_info |-> None ]

set_dirty(s) == [s EXCEPT !.dirty = TRUE]

(***************************************************************************)
(* App::change_file, App::change_file_rel                                  *)
(***************************************************************************)
\* the index change_file resolves its argument to
new_index_of(s, index) ==
    IF s.files = << >> THEN None
    ELSE IF index = None THEN None
    ELSE Some(index[1] % Len(s.files))

\* change_file carrying the view of the previous image over to the new one
change_file_keep_view(s, index) ==
    LET new_index == new_index_of(s, index)
    IN  IF new_index = s.file_index THEN s
        ELSE IF new_index = None
        THEN [s EXCEPT !.file_index = new_index]
        ELSE LET path == s.files[new_index[1] + 1]
                 loaded == load_image(path)
                 fresh == CurrentImage(path, loaded[1])
             IN  [s EXCEPT !.file_index = new_index,
                           !.image = IF loaded = None THEN None
                                     ELSE IF s.image = None THEN Some(fresh)
                                     ELSE Some([fresh EXCEPT
                                                 !.pos = s.image[1].pos,
                                                 !.angle = s.image[1].angle,
                                                 !.drag = s.image[1].drag,
                                                 !.pixel_info = s.image[1].pixel_info]),
                           !.dirty = TRUE]

\* change_file without the comparison of the new index with the current one
change_file_always_loads(s, index) ==
    LET new_index == new_index_of(s, index)
    IN  IF new_index = None
        THEN [s EXCEPT !.file_index = new_index]
        ELSE LET path == s.files[new_index[1] + 1]
                 loaded == load_image(path)
             IN  [s EXCEPT !.file_index = new_index,
                           !.image = IF loaded = None THEN None
                                     ELSE Some(CurrentImage(path, loaded[1])),
                           !.dirty = TRUE]

\* change_file keeping the previous image when the new file does not load
change_file_keep_image(s, index) ==
    LET new_index == new_index_of(s, index)
    IN  IF new_index = s.file_index THEN s
        ELSE IF new_index = None
        THEN [s EXCEPT !.file_index = new_index]
        ELSE LET path == s.files[new_index[1] + 1]
                 loaded == load_image(path)
             IN  [s EXCEPT !.file_index = new_index,
                           !.image = IF loaded = None THEN s.image
                                     ELSE Some(CurrentImage(path, loaded[1])),
                           !.dirty = TRUE]

change_file(s, index) ==
    LET new_index == new_index_of(s, index)
    IN  IF new_index = s.file_index THEN s
        ELSE IF new_index = None
        \* try_some!(self.file_index) returns from change_file itself
        THEN [s EXCEPT !.file_index = new_index]
        ELSE LET path == s.files[new_index[1] + 1]
                 loaded == load_image(path)
             IN  [s EXCEPT !.file_index = new_index,
                           !.image = IF loaded = None THEN None
                                     ELSE Some(CurrentImage(path, loaded[1])),
                           !.dirty = TRUE]

\* the paths change_file hands to Display::load_image
change_file_loads(s, index) ==
    LET new_index == new_index_of(s, index)
    IN  IF new_index = s.file_index \/ new_index = None THEN << >>
        ELSE << s.files[new_index[1] + 1] >>

\* change_file_rel taking the magnitude of the offset instead of normalising it
change_file_rel_abs(s, offset) ==
    LET nfiles == Len(s.files)
        index == IF nfiles = 0 THEN None
                 ELSE Some(unwrap_or(s.file_index, 0) + Abs(RemT(offset, nfiles)))
    IN  change_file(s, index)

change_file_rel(s, offset) ==
    LET nfiles == Len(s.files)
        index == IF nfiles = 0 THEN None
                 ELSE Some(unwrap_or(s.file_index, 0) + (RemT(offset, nfiles) + nfiles))
    IN  change_file(s, index)

(***************************************************************************)
(* App::clamp_pos, App::move_to, App::move_rel, App::zoom_adjust           *)
(***************************************************************************)
clamp_pos(s) ==
    IF s.image = None THEN s
    ELSE LET img == s.image[1]
             out_sx == R(s.output_size[1])
             out_sy == R(s.output_size[2])
             img_sx == R(img.width)
             img_sy == R(img.height)
             dst_sx == RDiv(out_sx, s.zoom)
             dst_sy == RDiv(out_sy, s.zoom)
             px == IF RLe(img_sx, dst_sx) THEN RHalf(img_sx)
                   ELSE clamp(img.pos[1], RHalf(dst_sx), RSub(img_sx, RHalf(dst_sx)))
             py == IF RLe(img_sy, dst_sy) THEN RHalf(img_sy)
                   ELSE clamp(img.pos[2], RHalf(dst_sy), RSub(img_sy, RHalf(dst_sy)))
         IN  set_dirty([s EXCEPT !.image = Some([img EXCEPT !.pos = << px, py >>])])

\* move_to without its call of clamp_pos
move_to_unclamped(s, pos) ==
    IF s.image = None THEN s
    ELSE set_dirty([s EXCEPT !.image = Some([s.image[1] EXCEPT !.pos = pos])])

move_to(s, pos) ==
    IF s.image = None THEN s
    ELSE set_dirty(clamp_pos([s EXCEPT !.image = Some([s.image[1] EXCEPT !.pos = pos])]))

move_rel(s, offset) ==
    IF s.image = None THEN s
    ELSE LET p == s.image[1].pos
         IN  move_to(s, << RAdd(p[1], offset[1]), RAdd(p[2], offset[2]) >>)

\* zoom_adjust enlarging an image smaller than the window
zoom_adjust_enlarging(s) ==
    IF s.image = None THEN s
    ELSE LET img == s.image[1]
             zx == Q(s.output_size[1], img.width)
             zy == Q(s.output_size[2], img.height)
         IN  set_dirty(clamp_pos([s EXCEPT !.zoom = RMin(zx, zy)]))

\* zoom_adjust fitting the width alone
zoom_adjust_width(s) ==
    IF s.image = None THEN s
    ELSE LET img == s.image[1]
             zx == Q(s.output_size[1], img.width)
         IN  set_dirty(clamp_pos([s EXCEPT !.zoom = RMin(R(1), zx)]))

zoom_adjust(s) ==
    IF s.image = None THEN s
    ELSE LET img == s.image[1]
             zx == Q(s.output_size[1], img.width)
             zy == Q(s.output_size[2], img.height)
         IN  set_dirty(clamp_pos([s EXCEPT !.zoom = RMin(RMin(R(1), zx), zy)]))

(***************************************************************************)
(* App::scroll                                                             *)
(***************************************************************************)
MARGIN == Q(3, 2)

\* scroll showing the top of the previous file when it goes backwards
scroll_back_to_top(s, step) ==
    IF s.image = None THEN s
    ELSE LET out_sy == R(s.output_size[2])
             img_sy == R(s.image[1].height)
             pos_y == s.image[1].pos[2]
             dy == RDiv(RMul(step, out_sy), s.zoom)
         IN  IF RGe(dy, R(0)) /\ RGt(RAdd(RAdd(pos_y, RHalf(dy)), MARGIN), img_sy)
             THEN move_to(change_file_rel(s, 1), << R(0), R(0) >>)
             ELSE IF RLt(dy, R(0)) /\ RLt(RSub(RAdd(pos_y, RHalf(dy)), MARGIN), R(0))
             THEN move_to(change_file_rel(s, -1), << R(0), R(0) >>)
             ELSE move_rel(s, << R(0), dy >>)

scroll(s, step) ==
    IF s.image = None THEN s
    ELSE LET out_sy == R(s.output_size[2])
             img_sy == R(s.image[1].height)
             pos_y == s.image[1].pos[2]
             dy == RDiv(RMul(step, out_sy), s.zoom)
         IN  IF RGe(dy, R(0)) /\ RGt(RAdd(RAdd(pos_y, RHalf(dy)), MARGIN), img_sy)
             THEN move_to(change_file_rel(s, 1), << R(0), R(0) >>)
             ELSE IF RLt(dy, R(0)) /\ RLt(RSub(RAdd(pos_y, RHalf(dy)), MARGIN), R(0))
             THEN move_to(change_file_rel(s, -1), << R(0), R(F32_MAX) >>)
             ELSE move_rel(s, << R(0), dy >>)

(***************************************************************************)
(* ZOOM_STEPS, App::set_zoom, App::zoom_in, App::zoom_out                  *)
(***************************************************************************)
\* (lo..hi).step_by(step)
RECURSIVE step_by(_, _, _)
step_by(lo, hi, step) == IF lo >= hi THEN << >> ELSE << lo >> \o step_by(lo + step, hi, step)

\* the percentages with steps of 100 up to 1000 (without 600) and of 500 up to 4000
ZOOM_PERCENTS_listed ==
    << 15, 22, 29, 36, 43, 50, 60, 70, 80, 90, 100, 125, 150, 175, 200, 300, 400, 500,
       700, 800, 900, 1000, 1500, 2000, 2500, 3000, 3500, 4000 >>

ZOOM_PERCENTS ==
    step_by(0, 0, 1)
    \o step_by(15, 50, 7)
    \o step_by(50, 100, 10)
    \o step_by(100, 200, 25)
    \o step_by(200, 600, 100)
    \o step_by(600, 1000, 200)
    \o step_by(1000, 2000, 500)
    \o step_by(2000, 5000, 1000)

ZOOM_STEPS == [i \in 1 .. Len(ZOOM_PERCENTS) |-> Q(ZOOM_PERCENTS[i], 100)]

ZOOM_MIN == Q(1, 1000)
ZOOM_MAX == R(1000)

\* set_zoom_shift with the ratio of the zooms inverted
set_zoom_shift_inverted(s, z, center) ==
    LET new_zoom == clamp(z, ZOOM_MIN, ZOOM_MAX)
        img == s.image[1]
        pos == IF center = None THEN img.pos
               ELSE LET k == RDiv(s.zoom, new_zoom)
                        dx == RDiv(RSub(img.pos[1], center[1][1]), k)
                        dy == RDiv(RSub(img.pos[2], center[1][2]), k)
                    IN  << RAdd(center[1][1], dx), RAdd(center[1][2], dy) >>
    IN  [s EXCEPT !.image = Some([img EXCEPT !.pos = pos]), !.zoom = new_zoom]

\* set_zoom up to, and without, its call of clamp_pos
set_zoom_shift(s, z, center) ==
    LET new_zoom == clamp(z, ZOOM_MIN, ZOOM_MAX)
        img == s.image[1]
        pos == IF center = None THEN img.pos
               ELSE LET k == RDiv(new_zoom, s.zoom)
                        dx == RDiv(RSub(img.pos[1], center[1][1]), k)
                        dy == RDiv(RSub(img.pos[2], center[1][2]), k)
                    IN  << RAdd(center[1][1], dx), RAdd(center[1][2], dy) >>
    IN  [s EXCEPT !.image = Some([img EXCEPT !.pos = pos]), !.zoom = new_zoom]

\* set_zoom storing the zoom also when no image is shown
set_zoom_without_image(s, z, center) ==
    IF s.image = None THEN set_dirty([s EXCEPT !.zoom = clamp(z, ZOOM_MIN, ZOOM_MAX)])
    ELSE set_dirty(clamp_pos(set_zoom_shift(s, z, center)))

set_zoom(s, z, center) ==
    IF s.image = None THEN s
    ELSE set_dirty(clamp_pos(set_zoom_shift(s, z, center)))

\* zoom_in accepting a table value equal to the current zoom
zoom_in_not_strict(s, center) ==
    LET above == { i \in 1 .. Len(ZOOM_STEPS) : RGe(ZOOM_STEPS[i], s.zoom) }
    IN  IF above = { } THEN s
        ELSE set_zoom(s, ZOOM_STEPS[CHOOSE i \in above : \A j \in above : i <= j], center)

zoom_in(s, center) ==
    LET above == { i \in 1 .. Len(ZOOM_STEPS) : RGt(ZOOM_STEPS[i], s.zoom) }
    IN  IF above = { } THEN s
        ELSE set_zoom(s, ZOOM_STEPS[CHOOSE i \in above : \A j \in above : i <= j], center)

zoom_out(s, center) ==
    LET below == { i \in 1 .. Len(ZOOM_STEPS) : RLt(ZOOM_STEPS[i], s.zoom) }
    IN  IF below = { } THEN s
        ELSE set_zoom(s, ZOOM_STEPS[CHOOSE i \in below : \A j \in below : i >= j], center)

(***************************************************************************)
(* App::is_adjusted, App::rotate_to, App::rotate_rel                       *)
(***************************************************************************)
\* is_adjusted comparing the scaled size as it is, without rounding it
is_adjusted_exact(s) ==
    IF s.image = None THEN TRUE
    ELSE /\ RGe(R(s.output_size[1]), RMul(R(s.image[1].width), s.zoom))
         /\ RGe(R(s.output_size[2]), RMul(R(s.image[1].height), s.zoom))

is_adjusted(s) ==
    IF s.image = None THEN TRUE
    ELSE /\ s.output_size[1] >= RRound(RMul(R(s.image[1].width), s.zoom))
         /\ s.output_size[2] >= RRound(RMul(R(s.image[1].height), s.zoom))

rotate_to(s, angle) ==
    IF s.image = None THEN s
    ELSE set_dirty([s EXCEPT !.image = Some([s.image[1] EXCEPT !.angle = RemT(angle, 360)])])

rotate_rel(s, angle) ==
    IF s.image = None THEN s
    ELSE set_dirty([s EXCEPT !.image =
             Some([s.image[1] EXCEPT !.angle = RemT(s.image[1].angle + angle, 360)])])

\* rotate_rel: the i32 addition image.angle + angle leaves the range of i32,
\* which panics in a build with overflow checks and wraps around in one without
rotate_rel_overflows(s, angle) ==
    /\ s.image # None
    /\ \/ angle > 0 /\ s.image[1].angle > I32_MAX - angle
       \/ angle < 0 /\ s.image[1].angle < I32_MIN - angle

(***************************************************************************)
(* App::redraw, App::refresh, App::screen_to_image_pos                     *)
(***************************************************************************)
redraw(s) == [s EXCEPT !.dirty = FALSE]

\* refresh that leaves the screen as it is
refresh_skipped(s) == s

refresh(s) == IF s.dirty THEN redraw(s) ELSE s

\* screen_to_image_pos rejecting the points on the right and bottom edges
screen_to_image_pos_exclusive(s, pos) ==
    IF s.image = None THEN None
    ELSE LET img == s.image[1]
             cx == RAdd(img.pos[1], RDiv(RSub(pos[1], RHalf(R(s.output_size[1]))), s.zoom))
             cy == RAdd(img.pos[2], RDiv(RSub(pos[2], RHalf(R(s.output_size[2]))), s.zoom))
         IN  IF \/ RLt(cx, R(0)) \/ RGe(cx, R(img.width))
                \/ RLt(cy, R(0)) \/ RGe(cy, R(img.height))
             THEN None
             ELSE Some(<< cx, cy >>)

screen_to_image_pos(s, pos) ==
    IF s.image = None THEN None
    ELSE LET img == s.image[1]
             cx == RAdd(img.pos[1], RDiv(RSub(pos[1], RHalf(R(s.output_size[1]))), s.zoom))
             cy == RAdd(img.pos[2], RDiv(RSub(pos[2], RHalf(R(s.output_size[2]))), s.zoom))
         IN  IF \/ RLt(cx, R(0)) \/ RGt(cx, R(img.width))
                \/ RLt(cy, R(0)) \/ RGt(cy, R(img.height))
             THEN None
             ELSE Some(<< cx, cy >>)

\* a panic aborts the process: nothing of App remains
Aborted ==
    [ files |-> << >>, file_index |-> None, image |-> None, zoom |-> R(1),
      dirty |-> FALSE, output_size |-> << 0, 0 >>, bg_color |-> 0, panicked |-> TRUE ]

(***************************************************************************)
(* App::set_filelist                                                       *)
(***************************************************************************)
\* Vec::sort_unstable
RECURSIVE insert_sorted(_, _)
insert_sorted(sorted, x) ==
    IF sorted = << >> THEN << x >>
    ELSE IF x <= Head(sorted) THEN << x >> \o sorted
    ELSE << Head(sorted) >> \o insert_sorted(Tail(sorted), x)

RECURSIVE sort_unstable(_)
sort_unstable(v) ==
    IF v = << >> THEN << >> ELSE insert_sorted(sort_unstable(Tail(v)), Head(v))

\* a dedup that removes nothing
dedup_nothing(v) == v

\* Vec::dedup: consecutive equal elements are removed
RECURSIVE dedup(_)
dedup(v) ==
    IF Len(v) <= 1 THEN v
    ELSE IF v[1] = v[2] THEN dedup(Tail(v))
    ELSE << v[1] >> \o dedup(Tail(v))

\* the loop over the roots: how it ends ("ok", "err": a `?` returned the error,
\* "panic": the assert! failed) and the files pushed so far
RECURSIVE collect_files(_, _)
collect_files(paths, acc) ==
    IF paths = << >> THEN [status |-> "ok", files |-> acc]
    ELSE LET path == Head(paths)
         IN  IF is_dir(path)
             THEN IF ~read_dir(path).ok THEN [status |-> "err", files |-> acc]
                  ELSE collect_files(Tail(paths),
                           acc \o SelectSeq(read_dir(path).entries,
                                            LAMBDA e : is_dir(path) /\ is_image_path(e)))
             ELSE IF ~is_file(path) THEN [status |-> "panic", files |-> acc]
             ELSE collect_files(Tail(paths),
                      IF is_image_path(path) THEN Append(acc, path) ELSE acc)

\* set_filelist without its call of change_file
set_filelist_keep_index(s, paths) ==
    LET found == collect_files(paths, << >>)
    IN  CASE found.status = "err" -> s
          [] found.status = "panic" -> Aborted
          [] OTHER -> zoom_adjust([s EXCEPT !.files = dedup(sort_unstable(found.files))])

\* set_filelist storing the files found before the root that cannot be listed
set_filelist_partial(s, paths) ==
    LET found == collect_files(paths, << >>)
    IN  CASE found.status = "err" ->
               zoom_adjust(change_file(
                   [s EXCEPT !.files = dedup(sort_unstable(found.files))], Some(0)))
          [] found.status = "panic" -> Aborted
          [] OTHER ->
               zoom_adjust(change_file(
                   [s EXCEPT !.files = dedup(sort_unstable(found.files))], Some(0)))

\* the Result set_filelist returns to its caller (none when it panics)
set_filelist_result(paths) ==
    LET found == collect_files(paths, << >>)
    IN  CASE found.status = "err" -> "Err"
          [] found.status = "panic" -> "panic"
          [] OTHER -> "Ok"

set_filelist(s, paths) ==
    LET found == collect_files(paths, << >>)
    IN  CASE found.status = "err" -> s
          [] found.status = "panic" -> Aborted
          [] OTHER ->
               zoom_adjust(change_file(
                   [s EXCEPT !.files = dedup(sort_unstable(found.files))], Some(0)))

(***************************************************************************)
(* The handlers of the event loop                                          *)
(***************************************************************************)
filelist_step_from_mod(keymod) ==
    IF keymod = { "LSHIFTMOD" } \/ keymod = { "RSHIFTMOD" } THEN 5 ELSE 1

move_step_from_mod(keymod) ==
    IF keymod = { "LALTMOD" } \/ keymod = { "RALTMOD" } THEN 10
    ELSE IF keymod = { "LSHIFTMOD" } \/ keymod = { "RSHIFTMOD" } THEN 500
    ELSE 50

handle_textinput(s, text) ==
    CASE text = "a" -> zoom_adjust(s)
      [] text = "z" -> set_zoom(s, R(1), None)
      [] text = "-" -> zoom_out(s, None)
      [] text = "+" -> zoom_in(s, None)
      [] text = "r" -> rotate_rel(s, 90)
      [] text = "R" -> rotate_rel(s, -90)
      \* "q" posts the Quit event and "f" toggles the window's fullscreen state:
      \* neither touches the state of App
      [] OTHER -> s

handle_keypress(s, keycode, mods) ==
    LET keymod == mods \ { "NUMMOD", "CAPSMOD", "MODEMOD" }
        nomod == keymod = { }
    IN  CASE keycode = "Space" /\ nomod -> scroll(s, R(1))
          [] keycode = "Backspace" /\ nomod -> scroll(s, R(-1))
          [] keycode = "PageUp" ->
               zoom_adjust(change_file_rel(s, filelist_step_from_mod(keymod)))
          [] keycode = "PageDown" ->
               zoom_adjust(change_file_rel(s, -filelist_step_from_mod(keymod)))
          [] keycode = "Up" -> move_rel(s, << R(0), R(-move_step_from_mod(keymod)) >>)
          [] keycode = "Down" -> move_rel(s, << R(0), R(move_step_from_mod(keymod)) >>)
          [] keycode = "Right" ->
               IF is_adjusted(s)
               THEN zoom_adjust(change_file_rel(s, filelist_step_from_mod(keymod)))
               ELSE move_rel(s, << R(move_step_from_mod(keymod)), R(0) >>)
          [] keycode = "Left" ->
               IF is_adjusted(s)
               THEN zoom_adjust(change_file_rel(s, -filelist_step_from_mod(keymod)))
               ELSE move_rel(s, << R(-move_step_from_mod(keymod)), R(0) >>)
          \* Escape posts the Quit event
          [] OTHER -> s

\* Display::set_bg_brightness_rel(offset), offset in tenths: (offset * 256.) as u8
\* is 25, added or subtracted with saturation
set_bg_brightness_rel(c, tenths) ==
    IF tenths > 0
    THEN (IF c + 25 * tenths > 255 THEN 255 ELSE c + 25 * tenths)
    ELSE (IF c + 25 * tenths < 0 THEN 0 ELSE c + 25 * tenths)

handle_mousewheel(s, step_y, alt_mod, mouse_pos) ==
    IF alt_mod
    THEN set_dirty([s EXCEPT !.bg_color =
             set_bg_brightness_rel(s.bg_color, IF step_y > 0 THEN -1 ELSE 1)])
    ELSE LET center == screen_to_image_pos(s, << R(mouse_pos[1]), R(mouse_pos[2]) >>)
         IN  IF step_y > 0 THEN zoom_in(s, center)
             ELSE IF step_y < 0 THEN zoom_out(s, center)
             ELSE s

handle_mouse_release(s, button) ==
    LET dragging == s.image # None /\ s.image[1].drag # None
    IN  CASE button = "Left" ->
               IF dragging
               THEN [s EXCEPT !.image = Some([s.image[1] EXCEPT !.drag = None])]
               ELSE zoom_adjust(change_file_rel(s, -1))
          [] button = "Right" ->
               IF dragging THEN s ELSE zoom_adjust(change_file_rel(s, 1))
          [] OTHER -> s

\* Display::draw_pixel_and_get_color: the colour of a pixel of the model's images
draw_pixel_and_get_color(img, pixel) == (img.path + pixel[1] + pixel[2]) % 2

handle_mouse_move(s, left_pressed, pos, lctrl) ==
    IF left_pressed
    THEN LET moved == IF s.image # None /\ s.image[1].drag # None
                      THEN move_rel(s, << R(s.image[1].drag[1][1] - pos[1]),
                                          R(s.image[1].drag[1][2] - pos[2]) >>)
                      ELSE s
         IN  IF moved.image = None THEN moved
             ELSE [moved EXCEPT !.image = Some([moved.image[1] EXCEPT !.drag = Some(pos)])]
    ELSE IF lctrl
    THEN LET at == screen_to_image_pos(s, << R(pos[1]), R(pos[2]) >>)
         IN  IF at = None THEN s
             ELSE LET pixel_pos == << RTrunc(at[1][1]), RTrunc(at[1][2]) >>
                      pixel_color == draw_pixel_and_get_color(s.image[1], pixel_pos)
                  IN  set_dirty([s EXCEPT !.image = Some([s.image[1] EXCEPT
                                     !.pixel_info = Some(<< pixel_pos, pixel_color >>)])])
    ELSE s

\* App::run, the Window arm: the output size has changed
window_resized(s, size) == set_dirty([s EXCEPT !.output_size = size])

(***************************************************************************)
(* The arguments the operations are tried with                             *)
(***************************************************************************)
\* the rank of the path named n
P(n) == CHOOSE p \in Paths : PathNames[p] = n
RootLists ==
    { << >>, << P("d") >>, << P("c.jpg") >>, << P("c.jpg"), P("d") >>, << P("d/a.png") >>,
      << P("d"), P("d/b.png") >>, << P("d/a.txt") >>, << P("u") >>, << P("c.jpg"), P("u") >>,
      << P("x") >> }
Indexes == { None } \cup { Some(i) : i \in 0 .. MaxIndex }
Offsets == { I32_MIN, -5, -4, -1, 0, 1, 2, 5, I32_MAX }
Positions == { << R(0), R(0) >>, << R(0), R(F32_MAX) >>, << R(5), Q(13, 2) >> }
Moves == { << R(50), R(0) >>, << R(-3), R(-50) >> }
ScrollSteps == { R(1), R(-1), Q(1, 2) }
ZoomTargets == { R(0), Q(1, 2), R(1), R(3), R(2000) }
Centers == { None, Some(<< R(3), R(2) >>), Some(<< R(20), R(-1) >>) }
Angles == { 90, 450 }
Texts == { "a", "z", "-", "+", "r", "R", "q", "f", "x" }
Keycodes ==
    { "Escape", "Space", "Backspace", "PageUp", "PageDown", "Up", "Down", "Right", "Left", "A" }
KeyMods == { { }, { "LSHIFTMOD" }, { "LALTMOD", "NUMMOD" } }
Buttons == { "Left", "Right", "Middle" }
MousePositions == { << 1, 1 >>, << 6, 4 >> }
WheelSteps == { -1, 0, 1 }

\* the pan position is within the model's precision
Representable(s) ==
    s.image # None =>
        /\ s.image[1].pos[1][2] <= MaxDen
        /\ s.image[1].pos[2][2] <= MaxDen

\* the operation whose result is r takes place
Does(r) ==
    /\ ~panicked
    /\ steps < MaxSteps
    /\ Representable(r)
    /\ Becomes(r)
    /\ steps' = steps + 1

(***************************************************************************)
(* The state App::init builds before it calls set_filelist.  The window is *)
(* DEFAULT_WINDOW_SIZE, (800, 500) in the source: the model's windows and  *)
(* images are a hundredth of the program's.                                *)
(***************************************************************************)
DEFAULT_WINDOW_SIZE == << 8, 5 >>
DEFAULT_BG_COLOR == 0

Init ==
    /\ files = << >>
    /\ file_index = None
    /\ image = None
    /\ zoom = R(1)
    /\ dirty = TRUE
    /\ output_size = DEFAULT_WINDOW_SIZE
    /\ bg_color = DEFAULT_BG_COLOR
    /\ panicked = FALSE
    /\ steps = 0

(***************************************************************************)
(* The public operations of App, one action each                           *)
(***************************************************************************)
SetFilelist == \E paths \in RootLists : Does(set_filelist(State, paths))
ChangeFile == \E index \in Indexes : Does(change_file(State, index))
ChangeFileRel == \E offset \in Offsets : Does(change_file_rel(State, offset))
MoveTo == \E pos \in Positions : Does(move_to(State, pos))
MoveRel == \E offset \in Moves : Does(move_rel(State, offset))
Scroll == \E step \in ScrollSteps : Does(scroll(State, step))
ZoomAdjust == Does(zoom_adjust(State))
SetZoom ==
    \E z \in ZoomTargets, center \in Centers :
        /\ image # None => Representable(set_zoom_shift(State, z, center))
        /\ Does(set_zoom(State, z, center))
RotateTo == \E angle \in Angles : Does(rotate_to(State, angle))
RotateRel == \E angle \in Angles : Does(rotate_rel(State, angle))
Redraw == Does(redraw(State))
Refresh == Does(refresh(State))
\* the window system resizes the window
WindowResized == \E size \in OutputSizes : Does(window_resized(State, size))

Next ==
    \/ SetFilelist
    \/ ChangeFile
    \/ ChangeFileRel
    \/ MoveTo
    \/ MoveRel
    \/ Scroll
    \/ ZoomAdjust
    \/ SetZoom
    \/ RotateTo
    \/ RotateRel
    \/ Redraw
    \/ Refresh
    \/ WindowResized

Spec == Init /\ [][Next]_vars

(***************************************************************************)
(* The event loop, App::run.  A state of SpecLoop is the state of App when *)
(* the loop waits for the next event; a step is one turn of the loop: the  *)
(* arm of the match that handles the event, then refresh.                  *)
(***************************************************************************)
\* the turn of the loop whose result is r takes place
Turns(r) ==
    /\ ~panicked
    /\ steps < MaxEvents
    /\ Representable(r)
    /\ Becomes(r)
    /\ steps' = steps + 1

\* the state at the first wait_event: App::init(paths) has returned Ok and run
\* has called refresh
InitLoop ==
    \E paths \in RootLists :
        /\ collect_files(paths, << >>).status = "ok"
        /\ LET s == refresh(set_filelist(
                        [ files |-> << >>, file_index |-> None, image |-> None,
                          zoom |-> R(1), dirty |-> TRUE,
                          output_size |-> DEFAULT_WINDOW_SIZE,
                          bg_color |-> DEFAULT_BG_COLOR, panicked |-> FALSE ], paths))
           IN  /\ files = s.files
               /\ file_index = s.file_index
               /\ image = s.image
               /\ zoom = s.zoom
               /\ dirty = s.dirty
               /\ output_size = s.output_size
               /\ bg_color = s.bg_color
               /\ panicked = s.panicked
        /\ steps = 0

\* Event::Window: a resize sets dirty, any other window event does nothing
EventWindow ==
    \E win_event \in { "Resized", "SizeChanged", "Exposed" }, size \in OutputSizes :
        Turns(refresh(IF win_event \in { "Resized", "SizeChanged" }
                      THEN window_resized(State, size)
                      ELSE State))
EventTextInput ==
    \E text \in Texts : Turns(refresh(handle_textinput(State, text)))
EventKeyDown ==
    \E keycode \in Keycodes, keymod \in KeyMods :
        Turns(refresh(handle_keypress(State, keycode, keymod)))
EventMouseButtonUp ==
    \E mouse_btn \in Buttons : Turns(refresh(handle_mouse_release(State, mouse_btn)))
EventMouseMotion ==
    \E left \in BOOLEAN, pos \in MousePositions, lctrl \in BOOLEAN :
        Turns(refresh(handle_mouse_move(State, left, pos, lctrl)))
\* Event::MouseWheel: a flipped wheel reports the opposite steps
EventMouseWheel ==
    \E y \in WheelSteps, direction \in { "Normal", "Flipped" }, lalt \in BOOLEAN,
       pos \in MousePositions :
        Turns(refresh(handle_mousewheel(State,
                          IF direction = "Flipped" THEN -y ELSE y, lalt, pos)))

\* any other event (a key without keycode, a button press, ...): the loop
\* continues with the next event, without refresh
EventOther == Turns(State)

NextLoop ==
    \/ EventWindow
    \/ EventTextInput
    \/ EventKeyDown
    \/ EventMouseButtonUp
    \/ EventMouseMotion
    \/ EventMouseWheel
    \/ EventOther

SpecLoop == InitLoop /\ [][NextLoop]_vars

\* the event loop while the pointer rests: the events are those of the
\* keyboard, of the mouse buttons and of the window
NextKeys ==
    \/ EventWindow
    \/ EventTextInput
    \/ EventKeyDown
    \/ EventMouseButtonUp

SpecKeys == InitLoop /\ [][NextKeys]_vars

(***************************************************************************)
(* Paging: the user keeps scrolling forward by one page, scroll(1.), on a  *)
(* list of at least two files in a window of fixed size.                   *)
(***************************************************************************)
\* the zooms paging is followed with
PagingZooms == { Q(1, 2), R(1), R(3) }

\* the states paging starts from: a file list is set, a file of it is
\* selected, the window is resized and a zoom is chosen
InitPaging ==
    \E paths \in RootLists, index \in Indexes, size \in OutputSizes, z \in PagingZooms :
        /\ collect_files(paths, << >>).status = "ok"
        /\ LET s == set_zoom(window_resized(change_file(set_filelist(
                        [ files |-> << >>, file_index |-> None, image |-> None,
                          zoom |-> R(1), dirty |-> TRUE,
                          output_size |-> DEFAULT_WINDOW_SIZE,
                          bg_color |-> DEFAULT_BG_COLOR, panicked |-> FALSE ], paths),
                        index), size), z, None)
           IN  /\ Len(s.files) >= 2
               /\ files = s.files
               /\ file_index = s.file_index
               /\ image = s.image
               /\ zoom = s.zoom
               /\ dirty = s.dirty
               /\ output_size = s.output_size
               /\ bg_color = s.bg_color
               /\ panicked = s.panicked
        /\ steps = 0

\* one more call of scroll(1.); steps holds the parity of the number of calls
\* made, so that a call that leaves App as it is still is a step
PageForward ==
    /\ Becomes(scroll(State, R(1)))
    /\ steps' = (steps + 1) % 2

NextPaging == PageForward

\* the number of calls made advances
OneMoreCall == steps' = (steps + 1) % 2

\* the user never stops scrolling: every step of NextPaging is a call, a call
\* is possible in every state, and calls keep being made
SpecPaging == InitPaging /\ [][NextPaging]_vars /\ WF_steps(OneMoreCall)

(***************************************************************************)
(* The claims                                                              *)
(***************************************************************************)

\* C1: in every state reached by set_filelist, change_file, change_file_rel and
\* scroll (and the other operations), the current file index, when present,
\* is an index of the file list: 0 <= file_index < len(files).
C1_IndexInRange ==
    file_index # None => (0 <= file_index[1] /\ file_index[1] < Len(files))

\* the last file of a list of four is selected: a relative or absolute file
\* change has wrapped or moved the index there
C1_Witness ==
    /\ Len(files) = 4
    /\ file_index = Some(3)
    /\ C1_IndexInRange

\* C2: on a list of n > 0 files with current index i (an absent index counts
\* as 0), change_file_rel(off) leaves the index (i + off) mod n, the floored
\* modulo, for every offset, negative ones included; on an empty list the
\* index stays None.
C2_RelativeIsFlooredModulo ==
    \A off \in Offsets :
        LET n == Len(files)
            i == unwrap_or(file_index, 0)
            r == change_file_rel(State, off)
        IN  IF n = 0
            THEN file_index = None /\ r.file_index = None
            ELSE r.file_index = Some(((i % n) + (off % n)) % n)

\* change_file_rel(-1) on a list of three files at index 0 yields index 2
C2_Witness ==
    /\ Len(files) = 3
    /\ file_index = Some(0)
    /\ change_file_rel(State, -1).file_index = Some(2)

\* C3, as claimed: file_index is None if and only if the file list is empty.
C3_NoneIffEmpty == (file_index = None) <=> (files = << >>)

\* C4, as claimed: an image is present if and only if a file is selected and
\* that file decodes, and the image present is the one of the selected file.
C4_ImageOfSelectedFile ==
    /\ image # None <=>
           (/\ file_index # None
            /\ file_index[1] < Len(files)
            /\ load_image(files[file_index[1] + 1]) # None)
    /\ image # None => image[1].path = files[file_index[1] + 1]

\* the index the spec resolves a target to: target mod len, None on an empty
\* list or for an absent target
Resolved(index) ==
    IF files = << >> \/ index = None THEN None
    ELSE Some(index[1] % Len(files))

\* the target selects another file than the current one, and that file decodes
SelectsDecodable(index) ==
    /\ Resolved(index) # None
    /\ Resolved(index) # file_index
    /\ load_image(files[Resolved(index)[1] + 1]) # None

\* the target selects another file than the current one, and decoding it fails
SelectsUndecodable(index) ==
    /\ Resolved(index) # None
    /\ Resolved(index) # file_index
    /\ load_image(files[Resolved(index)[1] + 1]) = None

\* the view of the current image differs from a fresh one in pan, rotation and
\* drag anchor
ViewIsUsed ==
    /\ image # None
    /\ image[1].pos # << Q(image[1].width, 2), Q(image[1].height, 2) >>
    /\ image[1].angle # 0
    /\ image[1].drag # None

\* C5: whenever change_file changes the selected index and the new file
\* decodes, the resulting view is fresh: pan at (width/2, height/2) of the new
\* image, rotation 0, no drag anchor, no pixel probe, and zoom keeps the value
\* it had before the call.
C5_FreshViewOnFileChange ==
    \A index \in Indexes :
        SelectsDecodable(index) =>
            LET r == change_file(State, index)
                path == files[Resolved(index)[1] + 1]
                size == load_image(path)[1]
            IN  /\ r.file_index = Resolved(index)
                /\ r.image # None
                /\ r.image[1].path = path
                /\ r.image[1].width = size[1]
                /\ r.image[1].height = size[2]
                /\ r.image[1].pos = << Q(size[1], 2), Q(size[2], 2) >>
                /\ r.image[1].angle = 0
                /\ r.image[1].drag = None
                /\ r.image[1].pixel_info = None
                /\ r.zoom = zoom

\* a panned, rotated image with a drag in progress at a zoom other than 1, and
\* a target that changes the file to one that decodes
C5_Witness ==
    /\ ViewIsUsed
    /\ zoom # R(1)
    /\ \E index \in Indexes :
           /\ SelectsDecodable(index)
           /\ change_file(State, index).image[1].path # image[1].path
           /\ change_file(State, index).image[1].angle = 0

\* C6: change_file with a target whose resolved index equals the current index
\* is a no-op: file_index, the image with its pan, rotation, drag anchor and
\* pixel probe, zoom and the dirty flag are unchanged, and nothing is decoded.
C6_SameIndexIsNoOp ==
    \A index \in Indexes :
        Resolved(index) = file_index =>
            /\ change_file(State, index) = State
            /\ change_file_loads(State, index) = << >>

\* a target above the list length wraps to the current index while the image
\* is rotated and nothing is waiting to be drawn
C6_Witness ==
    /\ image # None
    /\ image[1].angle # 0
    /\ ~dirty
    /\ \E index \in Indexes :
           /\ index # file_index
           /\ Resolved(index) = file_index
           /\ change_file(State, index) = State

\* C7: when change_file selects a new index whose file fails to decode, it
\* completes: file_index is the resolved index, the image is absent, zoom is
\* unchanged, dirty is set, and from there change_file_rel(1) and
\* change_file_rel(-1) move the index to the adjacent file (mod n).
C7_DecodeFailureIsRecovered ==
    \A index \in Indexes :
        SelectsUndecodable(index) =>
            LET r == change_file(State, index)
                i == Resolved(index)[1]
                n == Len(files)
            IN  /\ ~r.panicked
                /\ r.file_index = Some(i)
                /\ r.image = None
                /\ r.zoom = zoom
                /\ r.dirty
                /\ r.files = files
                /\ change_file_rel(r, 1).file_index = Some((i + 1) % n)
                /\ change_file_rel(r, -1).file_index = Some((i + n - 1) % n)

\* an image is shown at a zoom other than 1 with nothing to draw, and a target
\* selects a file of a list of three that fails to decode
C7_Witness ==
    /\ image # None
    /\ zoom # R(1)
    /\ ~dirty
    /\ Len(files) = 3
    /\ \E index \in Indexes :
           /\ SelectsUndecodable(index)
           /\ change_file(State, index).image = None
           /\ change_file_rel(change_file(State, index), 1).file_index
                  # change_file(State, index).file_index

\* the extent of the image that state s shows on an axis: output_size / zoom
Visible(s, axis) == RDiv(R(s.output_size[axis]), s.zoom)

\* the extent of the image of state s on an axis
ImageSize(s, axis) == R(IF axis = 1 THEN s.image[1].width ELSE s.image[1].height)

\* the image of state s exceeds the visible extent on an axis
Exceeds(s, axis) == RGt(ImageSize(s, axis), Visible(s, axis))

\* the pan of state s is centred on an axis that fits, and within
\* [visible/2, image_size - visible/2] on an axis that exceeds
PanIsClamped(s) ==
    s.image # None =>
        \A axis \in 1 .. 2 :
            LET pan == s.image[1].pos[axis]
                half == RHalf(Visible(s, axis))
            IN  IF Exceeds(s, axis)
                THEN RLe(half, pan) /\ RLe(pan, RSub(ImageSize(s, axis), half))
                ELSE pan = RHalf(ImageSize(s, axis))

\* C8: with an image present, immediately after set_zoom(z, center) for any z
\* and center, and after move_to, move_rel and zoom_adjust, the pan on each
\* axis equals image_size/2 when image_size <= visible and otherwise lies in
\* [visible/2, image_size - visible/2], with visible = output_size / zoom.
C8_PanClampedAfterViewChange ==
    image # None =>
        /\ \A z \in ZoomTargets, center \in Centers :
               PanIsClamped(set_zoom(State, z, center))
        /\ \A pos \in Positions : PanIsClamped(move_to(State, pos))
        /\ \A offset \in Moves : PanIsClamped(move_rel(State, offset))
        /\ PanIsClamped(zoom_adjust(State))

\* the image exceeds the window on one axis and fits on the other, and a
\* move_to beyond the image ends on the upper bound of the exceeding axis
C8_Witness ==
    /\ image # None
    /\ Exceeds(State, 2)
    /\ ~Exceeds(State, 1)
    /\ \E pos \in Positions :
           LET r == move_to(State, pos)
           IN  /\ r.image[1].pos # pos
               /\ r.image[1].pos[2] =
                      RSub(ImageSize(r, 2), RHalf(Visible(r, 2)))
               /\ r.image[1].pos[1] = RHalf(ImageSize(r, 1))

\* C9, as claimed: in every state of the event loop the view shows no space
\* outside the image on an axis where the image exceeds the visible extent:
\* pan - visible/2 >= 0 and pan + visible/2 <= image_size.
C9_NoSpaceOutsideImage ==
    image # None =>
        \A axis \in 1 .. 2 :
            Exceeds(State, axis) =>
                LET pan == image[1].pos[axis]
                    half == RHalf(Visible(State, axis))
                IN  /\ RGe(RSub(pan, half), R(0))
                    /\ RLe(RAdd(pan, half), ImageSize(State, axis))

\* the screen position that shows image point c in state s:
\* output_size/2 + (c - pan) * zoom
ScreenOf(s, c) ==
    << RAdd(RHalf(R(s.output_size[1])), RMul(RSub(c[1], s.image[1].pos[1]), s.zoom)),
       RAdd(RHalf(R(s.output_size[2])), RMul(RSub(c[2], s.image[1].pos[2]), s.zoom)) >>

\* c + (p - c) * (z0 / z1)
ShiftedPan(p, c, z0, z1) == RAdd(c, RMul(RSub(p, c), RDiv(z0, z1)))

\* C10: set_zoom(target, Some(C)) with old zoom z0, old pan P and new zoom z1
\* sets the pan before clamping to C + (P - C) * (z0 / z1) on each axis; when
\* clamp_pos leaves that pan alone, the screen position that showed image
\* point C before the call shows C after it; with center None the pan before
\* clamping is the old pan.
C10_ZoomKeepsCenter ==
    image # None =>
        \A z \in ZoomTargets, center \in Centers :
            LET pre == set_zoom_shift(State, z, center)
                post == set_zoom(State, z, center)
                z1 == post.zoom
                p == image[1].pos
            IN  IF center = None
                    THEN pre.image[1].pos = p
                    ELSE LET c == center[1]
                         IN  /\ pre.image[1].pos =
                                    << ShiftedPan(p[1], c[1], zoom, z1),
                                       ShiftedPan(p[2], c[2], zoom, z1) >>
                             /\ post.image[1].pos = pre.image[1].pos =>
                                    /\ screen_to_image_pos(post, ScreenOf(State, c))
                                           = screen_to_image_pos(State, ScreenOf(State, c))
                                    /\ screen_to_image_pos(State, ScreenOf(State, c)) # None
                                           => screen_to_image_pos(post, ScreenOf(State, c)) = Some(c)

\* a zoom on a point of the image other than the pan changes the zoom and the
\* pan, clamp_pos leaves the new pan alone, and the point stays where it was
\* on the screen
C10_Witness ==
    /\ image # None
    /\ \E z \in ZoomTargets, center \in Centers :
           /\ center # None
           /\ Representable(set_zoom_shift(State, z, center))
           /\ LET pre == set_zoom_shift(State, z, center)
                  post == set_zoom(State, z, center)
              IN  /\ post.zoom # zoom
                  /\ pre.image[1].pos[1] # image[1].pos[1]
                  /\ pre.image[1].pos[2] # image[1].pos[2]
                  /\ post.image[1].pos = pre.image[1].pos
                  /\ screen_to_image_pos(post, ScreenOf(State, center[1])) = center

\* the values of the zoom step table
ZoomStepValues == { ZOOM_STEPS[i] : i \in 1 .. Len(ZOOM_STEPS) }

\* C11: with an image present, zoom_in sets zoom to the smallest table value
\* strictly greater than the current zoom and zoom_out to the largest table
\* value strictly smaller, whether or not the current zoom is a table value;
\* when there is no such value, zoom, pan and the dirty flag (the whole
\* state) are unchanged.
C11_ZoomStepsToNeighbour ==
    image # None =>
        \A center \in Centers :
            LET above == { v \in ZoomStepValues : RGt(v, zoom) }
                below == { v \in ZoomStepValues : RLt(v, zoom) }
                zin == zoom_in(State, center)
                zout == zoom_out(State, center)
            IN  /\ IF above = { } THEN zin = State
                   ELSE /\ zin.zoom \in above
                        /\ \A v \in above : RLe(zin.zoom, v)
                        /\ zin.dirty
                /\ IF below = { } THEN zout = State
                   ELSE /\ zout.zoom \in below
                        /\ \A v \in below : RGe(zout.zoom, v)
                        /\ zout.dirty

\* zoom 1 is a table value with nothing to draw: zoom_in goes to 1.25 and
\* zoom_out to 0.9
C11_Witness ==
    /\ image # None
    /\ zoom = R(1)
    /\ ~dirty
    /\ zoom_in(State, None).zoom = Q(125, 100)
    /\ zoom_out(State, None).zoom = Q(90, 100)

\* the zoom is above the table: zoom_in changes nothing, zoom_out steps down
C11_WitnessAtMaximum ==
    /\ image # None
    /\ zoom = ZOOM_MAX
    /\ zoom_in(State, None) = State
    /\ zoom_out(State, None).zoom = R(40)

\* the table is strictly increasing
ZoomStepsIncrease ==
    \A i, j \in 1 .. Len(ZOOM_STEPS) : i < j => RLt(ZOOM_STEPS[i], ZOOM_STEPS[j])

\* in the current state zoom_in and zoom_out step to values of the sequence
\* table, when they step at all
StepsWithin(table) ==
    image # None =>
        /\ zoom_in(State, None).zoom \in { zoom } \cup { table[i] : i \in 1 .. Len(table) }
        /\ zoom_out(State, None).zoom \in { zoom } \cup { table[i] : i \in 1 .. Len(table) }

\* C12, amended: in every state the zoom step table is the strictly
\* increasing 25-value sequence 15, 22, 29, 36, 43, 50, 60, 70, 80, 90, 100,
\* 125, 150, 175, 200, 300, 400, 500, 600, 800, 1000, 1500, 2000, 3000, 4000
\* percent, each divided by 100, and zoom_in and zoom_out step within it.
C12_ZoomStepTable ==
    /\ StepsWithin(ZOOM_STEPS)
    /\ ZOOM_STEPS =
           [ i \in 1 .. 25 |->
               Q(<< 15, 22, 29, 36, 43, 50, 60, 70, 80, 90, 100, 125, 150, 175, 200,
                    300, 400, 500, 600, 800, 1000, 1500, 2000, 3000, 4000 >>[i], 100) ]
    /\ ZoomStepsIncrease

\* C12, as claimed: the table is the 28-value sequence with 700, 900, 2500 and
\* 3500 percent and without 600 percent.
C12_ZoomStepTableAsClaimed ==
    /\ StepsWithin(ZOOM_STEPS)
    /\ ZOOM_STEPS =
           [ i \in 1 .. 28 |->
               Q(<< 15, 22, 29, 36, 43, 50, 60, 70, 80, 90, 100, 125, 150, 175, 200,
                    300, 400, 500, 700, 800, 900, 1000, 1500, 2000, 2500, 3000, 3500,
                    4000 >>[i], 100) ]
    /\ ZoomStepsIncrease

\* from the largest zoom two steps of zoom_out lead to 4000 then 3000 percent,
\* and from 500 percent zoom_in leads to 600 percent
C12_Witness ==
    /\ image # None
    /\ zoom = ZOOM_MAX
    /\ zoom_out(State, None).zoom = R(40)
    /\ zoom_out(zoom_out(State, None), None).zoom = R(30)
    /\ zoom_in([State EXCEPT !.zoom = R(5)], None).zoom = R(6)

RMax(a, b) == IF RLt(a, b) THEN b ELSE a

\* the pan state s has on an axis once value v is asked for: the middle of an
\* image that fits, else v brought into [visible/2, image_size - visible/2]
PanFor(s, axis, v) ==
    LET half == RHalf(Visible(s, axis))
        size == ImageSize(s, axis)
    IN  IF Exceeds(s, axis) THEN RMax(half, RMin(RSub(size, half), v))
        ELSE RHalf(size)

\* the distance scroll(step) moves by: step * output_height / zoom
ScrollDy(step) == RDiv(RMul(step, R(output_size[2])), zoom)

ScrollsForward(step) ==
    /\ RGe(ScrollDy(step), R(0))
    /\ RGt(RAdd(RAdd(image[1].pos[2], RHalf(ScrollDy(step))), Q(3, 2)),
           R(image[1].height))

ScrollsBackward(step) ==
    /\ RLt(ScrollDy(step), R(0))
    /\ RLt(RSub(RAdd(image[1].pos[2], RHalf(ScrollDy(step))), Q(3, 2)), R(0))

\* the index i moved by d on a list of n files
Neighbour(i, d, n) == Some((i + n + d) % n)

\* C13: with an image present, dy = step * output_height / zoom and MARGIN =
\* 1.5: scroll(step) with dy >= 0 and pos_y + dy/2 + MARGIN > img_h selects the
\* next file and puts the pan of the image then shown at its top (the clamp of
\* (0,0)); with dy < 0 and pos_y + dy/2 - MARGIN < 0 it selects the previous
\* file and leaves the pan at the bottom, pan_y = max(img_h - visible/2,
\* img_h/2); in every other case the index is unchanged and the pan becomes
\* the clamp of pos + (0, dy).
C13_ScrollTurnsPages ==
    image # None =>
        \A step \in ScrollSteps :
            LET r == scroll(State, step)
                n == Len(files)
                i == unwrap_or(file_index, 0)
                shown == r.image[1]
            IN  IF ScrollsForward(step)
                THEN /\ r.file_index = (IF n = 0 THEN None ELSE Neighbour(i, 1, n))
                     /\ r.image # None =>
                            /\ shown.pos[1] = PanFor(r, 1, R(0))
                            /\ shown.pos[2] = PanFor(r, 2, R(0))
                            /\ shown.pos[2] = RMin(RHalf(Visible(r, 2)), RHalf(R(shown.height)))
                ELSE IF ScrollsBackward(step)
                THEN /\ r.file_index = (IF n = 0 THEN None ELSE Neighbour(i, -1, n))
                     /\ r.image # None =>
                            /\ shown.pos[1] = PanFor(r, 1, R(0))
                            /\ shown.pos[2] =
                                   RMax(RSub(R(shown.height), RHalf(Visible(r, 2))),
                                        RHalf(R(shown.height)))
                ELSE /\ r.file_index = file_index
                     /\ r.image # None
                     /\ shown.path = image[1].path
                     /\ shown.pos[1] = PanFor(State, 1, image[1].pos[1])
                     /\ shown.pos[2] =
                            PanFor(State, 2, RAdd(image[1].pos[2], ScrollDy(step)))

\* an image that exceeds the window in height is shown at its bottom: a scroll
\* forward shows the top of the next file, which exceeds the window as well, a
\* scroll backward moves within the image
C13_Witness ==
    /\ image # None
    /\ Len(files) >= 3
    /\ Exceeds(State, 2)
    /\ ScrollsForward(R(1))
    /\ ~ScrollsBackward(R(-1))
    /\ scroll(State, R(1)).file_index # file_index
    /\ scroll(State, R(1)).image # None
    /\ Exceeds(scroll(State, R(1)), 2)
    /\ scroll(State, R(1)).image[1].pos[2] = RHalf(Visible(State, 2))
    /\ scroll(State, R(-1)).image[1].pos[2] # image[1].pos[2]

\* at the top of an image a scroll backward shows the bottom of the previous
\* file, which exceeds the window in height
C13_WitnessBackward ==
    /\ image # None
    /\ Len(files) >= 3
    /\ ScrollsBackward(R(-1))
    /\ scroll(State, R(-1)).file_index # file_index
    /\ scroll(State, R(-1)).image # None
    /\ Exceeds(scroll(State, R(-1)), 2)
    /\ scroll(State, R(-1)).image[1].pos[2] =
           RSub(R(scroll(State, R(-1)).image[1].height), RHalf(Visible(State, 2)))

\* the angles and deltas the rotations are tried with in the claim
RotationArguments == { -450, -90, 0, 90, 270, 450 }

\* C14, as claimed: with an image present the stored angle is in [0, 360),
\* rotate_to(a) stores the floored modulo a mod 360 and rotate_rel(d) from
\* angle r stores the floored modulo (r + d) mod 360; rotate_rel(-90) from 0
\* yields 270.
C14_RotationIsFlooredModulo ==
    image # None =>
        /\ 0 <= image[1].angle /\ image[1].angle < 360
        /\ \A a \in RotationArguments :
               /\ rotate_to(State, a).image[1].angle = a % 360
               /\ rotate_rel(State, a).image[1].angle = (image[1].angle + a) % 360

\* the screen points screen_to_image_pos is tried with
ScreenPoints ==
    { << R(0), R(0) >>, << R(1), R(1) >>, << R(6), R(4) >>, << R(8), R(5) >>,
      << R(4), Q(5, 2) >>, << R(-3), R(2) >>, << R(12), R(8) >> }

\* pan + (screen - output_size/2) / zoom on each axis
ImagePointOf(pt) ==
    << RAdd(image[1].pos[1], RDiv(RSub(pt[1], RHalf(R(output_size[1]))), zoom)),
       RAdd(image[1].pos[2], RDiv(RSub(pt[2], RHalf(R(output_size[2]))), zoom)) >>

\* c lies in [0, width] x [0, height]
InImageRectangle(c) ==
    /\ RLe(R(0), c[1]) /\ RLe(c[1], R(image[1].width))
    /\ RLe(R(0), c[2]) /\ RLe(c[2], R(image[1].height))

\* C15: with an image present screen_to_image_pos(s) computes c = pan + (s -
\* output_size/2) / zoom per axis and returns Some(c) exactly when 0 <= c.x <=
\* width and 0 <= c.y <= height, None otherwise; without an image it returns
\* None.
C15_ScreenToImage ==
    \A pt \in ScreenPoints :
        IF image = None THEN screen_to_image_pos(State, pt) = None
        ELSE IF InImageRectangle(ImagePointOf(pt))
        THEN screen_to_image_pos(State, pt) = Some(ImagePointOf(pt))
        ELSE screen_to_image_pos(State, pt) = None

\* a zoomed image panned off its centre: one screen point maps onto the right
\* edge of the image (c.x = width), another one outside of it
C15_Witness ==
    /\ image # None
    /\ zoom # R(1)
    /\ image[1].pos # << Q(image[1].width, 2), Q(image[1].height, 2) >>
    /\ \E pt \in ScreenPoints :
           /\ screen_to_image_pos(State, pt) # None
           /\ screen_to_image_pos(State, pt)[1][1] = R(image[1].width)
    /\ \E pt \in ScreenPoints :
           /\ ~InImageRectangle(ImagePointOf(pt))
           /\ screen_to_image_pos(State, pt) = None

\* the image is larger than the output on some axis
LargerThanOutput ==
    image[1].width > output_size[1] \/ image[1].height > output_size[2]

\* C16: with an image present zoom_adjust sets zoom to min(1, output_width /
\* image_width, output_height / image_height): below 1 for an image larger
\* than the output on some axis, 1 for an image no larger on both, and an axis
\* that then fits entirely ends with pan = image_size/2.
C16_ZoomAdjustFits ==
    image # None =>
        LET r == zoom_adjust(State)
            zx == Q(output_size[1], image[1].width)
            zy == Q(output_size[2], image[1].height)
        IN  /\ r.zoom = RMin(R(1), RMin(zx, zy))
            /\ LargerThanOutput => RLt(r.zoom, R(1))
            /\ ~LargerThanOutput => r.zoom = R(1)
            /\ \A axis \in 1 .. 2 :
                   ~Exceeds(r, axis) =>
                       r.image[1].pos[axis] = RHalf(ImageSize(r, axis))
            /\ r.file_index = file_index
            /\ r.dirty

\* an image higher than the window, enlarged and panned off its centre, is
\* brought back to a zoom below 1 and centred
C16_Witness ==
    /\ image # None
    /\ LargerThanOutput
    /\ RGt(zoom, R(1))
    /\ image[1].pos[2] # Q(image[1].height, 2)
    /\ RLt(zoom_adjust(State).zoom, R(1))
    /\ zoom_adjust(State).image[1].pos = << Q(image[1].width, 2), Q(image[1].height, 2) >>

\* an image smaller than the window, shown reduced, is brought back to zoom 1
C16_WitnessSmall ==
    /\ image # None
    /\ ~LargerThanOutput
    /\ RLt(zoom, R(1))
    /\ zoom_adjust(State).zoom = R(1)

\* the states the public operations other than redraw and refresh lead to
\* from the current state
OperationOutcomes ==
    { set_filelist(State, paths) : paths \in RootLists }
    \cup { change_file(State, index) : index \in Indexes }
    \cup { change_file_rel(State, offset) : offset \in Offsets }
    \cup { move_to(State, pos) : pos \in Positions }
    \cup { move_rel(State, offset) : offset \in Moves }
    \cup { scroll(State, step) : step \in ScrollSteps }
    \cup { zoom_adjust(State) }
    \cup { set_zoom(State, z, None) : z \in ZoomTargets }
    \cup { zoom_in(State, None), zoom_out(State, None) }
    \cup { rotate_to(State, angle) : angle \in Angles }
    \cup { rotate_rel(State, angle) : angle \in Angles }

\* the states the event handlers lead to from the current state
HandlerOutcomes ==
    { handle_textinput(State, text) : text \in Texts }
    \cup { handle_keypress(State, keycode, keymod) :
               keycode \in Keycodes, keymod \in KeyMods }
    \cup { handle_mousewheel(State, y, lalt, pos) :
               y \in WheelSteps, lalt \in BOOLEAN, pos \in MousePositions }
    \cup { handle_mouse_release(State, button) : button \in Buttons }
    \cup { handle_mouse_move(State, left, pos, lctrl) :
               left \in BOOLEAN, pos \in MousePositions, lctrl \in BOOLEAN }

\* r differs from the current state in the file index, the image or its pan,
\* rotation, drag anchor or pixel probe, the zoom or the background
ChangesState(r) ==
    \/ r.file_index # file_index
    \/ r.image # image
    \/ r.zoom # zoom
    \/ r.bg_color # bg_color

\* C17, as claimed: every operation and every event handler that changes the
\* file index, the image, its pan, rotation, drag anchor or pixel probe, the
\* zoom or the background sets the dirty flag, and only redraw clears it.
C17_DirtySetByEveryChange ==
    /\ \A r \in OperationOutcomes \cup HandlerOutcomes :
           ~r.panicked =>
               /\ ChangesState(r) => r.dirty
               /\ dirty => r.dirty
    /\ ~redraw(State).dirty

\* C18: each event the loop takes is handled and followed by refresh before
\* the next one is taken, so whenever the loop waits for the next event the
\* dirty flag is false: no change of the state is left unpainted.
C18_CleanWhenWaiting == ~dirty

\* events have rotated and zoomed the image, and the loop waits with nothing
\* left to paint
C18_Witness ==
    /\ steps >= 2
    /\ image # None
    /\ image[1].angle # 0
    /\ zoom # R(1)
    /\ ~dirty

\* the states the operations on the view lead to from the current state
ViewOutcomes ==
    { move_to(State, pos) : pos \in Positions }
    \cup { move_rel(State, offset) : offset \in Moves }
    \cup { set_zoom(State, z, center) : z \in ZoomTargets, center \in Centers }
    \cup { zoom_in(State, center) : center \in Centers }
    \cup { zoom_out(State, center) : center \in Centers }
    \cup { zoom_adjust(State) }
    \cup { rotate_to(State, angle) : angle \in Angles }
    \cup { rotate_rel(State, angle) : angle \in Angles }
    \cup { scroll(State, step) : step \in ScrollSteps }

\* C19: when no image is shown (empty list, or a file that did not decode),
\* move_to, move_rel, set_zoom, zoom_in, zoom_out, zoom_adjust, rotate_to,
\* rotate_rel and scroll are no-ops: file_index, zoom and the dirty flag are
\* unchanged and no image appears.
C19_NoImageNoEffect ==
    image = None =>
        \A r \in ViewOutcomes :
            /\ r.file_index = file_index
            /\ r.zoom = zoom
            /\ r.dirty = dirty
            /\ r.image = None
            /\ r = State

\* the selected file did not decode, the zoom is not 1 and nothing is left to
\* draw: the operations leave all of it alone
C19_Witness ==
    /\ image = None
    /\ file_index # None
    /\ zoom # R(1)
    /\ ~dirty
    /\ set_zoom(State, R(1), None) = State
    /\ scroll(State, R(1)) = State

\* the file list is empty and the first frame is still to be drawn
C19_WitnessEmpty ==
    /\ image = None
    /\ file_index = None
    /\ files = << >>
    /\ dirty
    /\ zoom_adjust(State) = State

\* the paths whose extension is, whatever its case, one of tga, bmp, pnm, gif,
\* jpg, jpeg, tif, tiff, png, webp
ImageNames == { "c.jpg", "d/a.PNG", "d/a.png", "d/b.png" }

\* the names of the immediate children of a directory
ChildNames(dir) ==
    IF PathNames[dir] = "d" THEN { "d/a.PNG", "d/a.png", "d/a.txt", "d/b.png" } ELSE { }

\* every root is a directory that can be listed or an existing file
RootsAreReadable(roots) ==
    \A i \in 1 .. Len(roots) :
        PathNames[roots[i]] \in { "d", "c.jpg", "d/a.PNG", "d/a.png", "d/a.txt", "d/b.png" }

\* the paths the list is to hold for the roots
ExpectedFiles(roots) ==
    { p \in Paths :
        /\ PathNames[p] \in ImageNames
        /\ \E i \in 1 .. Len(roots) :
               \/ PathNames[p] \in ChildNames(roots[i])
               \/ PathNames[roots[i]] \notin { "d", "u" } /\ p = roots[i] }

\* C20: after set_filelist(roots) succeeds the file list is strictly
\* ascending, whatever the discovery order and the overlap of the roots, and
\* holds a path if and only if it is an immediate child of a directory root or
\* itself a file root and its extension matches, case-insensitively, one of
\* the ten image extensions; the list may be empty.
C20_FileListSortedAndFiltered ==
    \A roots \in RootLists :
        ~panicked /\ RootsAreReadable(roots) =>
            LET r == set_filelist(State, roots)
            IN  /\ ~r.panicked
                /\ \A i, j \in 1 .. Len(r.files) : i < j => r.files[i] < r.files[j]
                /\ { r.files[i] : i \in 1 .. Len(r.files) } = ExpectedFiles(roots)

\* the list built from directory d and its file d/b.png: a.PNG, a.png and
\* b.png, each once and in order, without a.txt
C20_Witness ==
    /\ files = << P("d/a.PNG"), P("d/a.png"), P("d/b.png") >>
    /\ set_filelist(State, << P("d"), P("d/b.png") >>).files = files
    /\ set_filelist(State, << P("d/a.txt") >>).files = << >>

\* the roots hold a directory that cannot be listed, and no root before it
\* makes set_filelist panic
CannotBeListed(roots) ==
    /\ \E i \in 1 .. Len(roots) : is_dir(roots[i]) /\ ~read_dir(roots[i]).ok
    /\ collect_files(roots, << >>).status = "err"

\* C21: when a directory root cannot be listed, set_filelist returns an error
\* to its caller and aborts only that call: the file list, file_index, the
\* image with its viewport, the zoom and the dirty flag are left as they were,
\* also when earlier roots of the same call were enumerated.
C21_EnumerationFailureAbortsCall ==
    \A roots \in RootLists :
        ~panicked /\ CannotBeListed(roots) =>
            LET r == set_filelist(State, roots)
            IN  /\ set_filelist_result(roots) = "Err"
                /\ r.files = files
                /\ r.file_index = file_index
                /\ r.image = image
                /\ r.zoom = zoom
                /\ r.dirty = dirty
                /\ ~r.panicked
                /\ r = State

\* two files of directory d are listed, the second one is shown zoomed and
\* painted; set_filelist with c.jpg, which is enumerated, and then u, which
\* cannot be listed, leaves all of it alone
C21_Witness ==
    /\ Len(files) >= 2
    /\ file_index # None /\ file_index # Some(0)
    /\ image # None
    /\ zoom # R(1)
    /\ ~dirty
    /\ CannotBeListed(<< P("c.jpg"), P("u") >>)
    /\ collect_files(<< P("c.jpg"), P("u") >>, << >>).files = << P("c.jpg") >>
    /\ set_filelist(State, << P("c.jpg"), P("u") >>) = State

\* the 32-bit integers at the ends of the range
ExtremeIntegers == { I32_MIN, I32_MAX }

\* C22, as claimed: no core operation panics or aborts for any input:
\* set_filelist with a root that is neither a directory nor a regular file,
\* change_file with any index, change_file_rel, rotate_to and rotate_rel with
\* any 32-bit integer, and move, zoom and scroll with any argument all
\* complete.
C22_NoOperationPanics ==
    /\ ~panicked
    /\ \A r \in OperationOutcomes : ~r.panicked
    /\ \A roots \in RootLists : set_filelist_result(roots) # "panic"
    /\ \A a \in ExtremeIntegers :
           /\ ~change_file_rel(State, a).panicked
           /\ ~rotate_to(State, a).panicked
           /\ ~rotate_rel_overflows(State, a)

\* the size of the image at the current zoom on an axis, and that size
\* rounded to the nearest integer
ScaledSize(axis) == RMul(ImageSize(State, axis), zoom)
RoundedSize(axis) == RRound(ScaledSize(axis))

\* output_size >= round(image_size * zoom) on both axes, or no viewport
Adjusted ==
    image = None \/ \A axis \in 1 .. 2 : output_size[axis] >= RoundedSize(axis)

\* the arrow keys: the direction each one goes
ArrowSign(keycode) == IF keycode = "Right" THEN 1 ELSE -1
\* the numbers of files and of pixels the modifiers of the model select
\* (NUMMOD, CAPSMOD and MODEMOD do not count)
FileStepOf(keymod) == IF "LSHIFTMOD" \in keymod THEN 5 ELSE 1
MoveStepOf(keymod) ==
    IF "LSHIFTMOD" \in keymod THEN 500 ELSE IF "LALTMOD" \in keymod THEN 10 ELSE 50

\* the arrow key advances the file: change_file_rel by the file step, then
\* zoom_adjust
Navigates(keycode, keymod) ==
    LET r == handle_keypress(State, keycode, keymod)
        n == Len(files)
        i == unwrap_or(file_index, 0)
    IN  /\ r = zoom_adjust(change_file_rel(State, ArrowSign(keycode) * FileStepOf(keymod)))
        /\ r.file_index =
               (IF n = 0 THEN None
                ELSE Some((i + n + RemT(ArrowSign(keycode) * FileStepOf(keymod), n)) % n))

\* the arrow key pans horizontally by the move step: the file and the zoom
\* stay, the pan is the clamp of pos + (step, 0)
Pans(keycode, keymod) ==
    LET r == handle_keypress(State, keycode, keymod)
        dx == R(ArrowSign(keycode) * MoveStepOf(keymod))
    IN  /\ r.file_index = file_index
        /\ r.files = files
        /\ r.zoom = zoom
        /\ r.image # None
        /\ r.image[1].path = image[1].path
        /\ r.image[1].pos[1] = PanFor(State, 1, RAdd(image[1].pos[1], dx))
        /\ r.image[1].pos[2] = PanFor(State, 2, image[1].pos[2])

\* the arrow keys with each modifier either advance the file, when Adjusted,
\* or pan
ArrowsFollowAdjusted ==
    \A keycode \in { "Left", "Right" }, keymod \in KeyMods :
        IF Adjusted THEN Navigates(keycode, keymod) ELSE Pans(keycode, keymod)

\* the arrow keys change the file index
ArrowsChangeFile ==
    \E keycode \in { "Left", "Right" } :
        handle_keypress(State, keycode, { }).file_index # file_index

\* C23, amended: a Left/Right arrow key advances the file (change_file_rel by
\* -step/+step, then zoom_adjust) exactly when is_adjusted() holds, that is
\* when output_size >= round(image_size * zoom) on both axes or there is no
\* viewport, and otherwise pans horizontally by the move step without
\* changing file_index; so without an image the arrows always navigate, and
\* with an image whose size at the current zoom, rounded to the nearest
\* integer, exceeds the output on an axis they never do.
C23_ArrowsNavigateWhenAdjusted ==
    /\ ArrowsFollowAdjusted
    /\ Adjusted = is_adjusted(State)
    /\ image = None => Adjusted
    /\ (image # None /\ \E axis \in 1 .. 2 : RoundedSize(axis) > output_size[axis]) =>
           ~Adjusted /\ ~ArrowsChangeFile

\* C23, as claimed: the same, and with an image wider or taller than the
\* output at the current zoom the arrows never navigate.
C23_ArrowsNavigateAsClaimed ==
    /\ ArrowsFollowAdjusted
    /\ image = None => Adjusted
    /\ (image # None /\ \E axis \in 1 .. 2 : RGt(ScaledSize(axis), R(output_size[axis]))) =>
           ~Adjusted /\ ~ArrowsChangeFile

\* the image is higher than the output at the current zoom by less than half
\* a pixel: it counts as adjusted and the arrows change the file
C23_Witness ==
    /\ image # None
    /\ Len(files) >= 2
    /\ RGt(ScaledSize(2), R(output_size[2]))
    /\ RoundedSize(2) = output_size[2]
    /\ Adjusted
    /\ ArrowsChangeFile

\* the image is wider than the output by more than that: the arrows pan
C23_WitnessPans ==
    /\ image # None
    /\ Len(files) >= 2
    /\ RoundedSize(1) > output_size[1]
    /\ handle_keypress(State, "Right", { }).image[1].pos[1] # image[1].pos[1]
    /\ handle_keypress(State, "Right", { }).file_index = file_index

\* C24, as claimed: with a list of at least two files and a fixed output
\* size, repeated scroll(1.) changes file_index after finitely many calls,
\* from whatever file is selected, and so visits every file of the list again
\* and again: paging is never stuck on one file.
C24_PagingMakesProgress ==
    \A i \in 0 .. MaxIndex :
        /\ (file_index = Some(i)) ~> (file_index # Some(i))
        /\ []<>(i < Len(files) => file_index = Some(i))

\* the image and output sizes zoom_adjust is tried with, beside the ones of
\* the files and windows of the model
TriedImageSizes == { << 1, 1 >>, << 3, 7 >>, << 33, 1 >>, << 999, 1000 >> }
TriedOutputSizes == OutputSizes \cup { << 7, 3 >> }

\* the current state with an image and an output of the sizes given
Resized(isize, osize) ==
    [State EXCEPT !.image = Some([image[1] EXCEPT !.width = isize[1], !.height = isize[2]]),
                  !.output_size = osize]

\* the states an arrow key or a click leads to when it changes the file
FileChangesByArrowOrClick ==
    { r \in { handle_keypress(State, keycode, keymod) :
                  keycode \in { "Left", "Right" }, keymod \in KeyMods }
            \cup { handle_mouse_release(State, button) : button \in Buttons } :
        r.file_index # file_index }

\* in state s a Left/Right arrow key advances the file: it is change_file_rel
\* then zoom_adjust, and the index changes
ArrowsAdvanceIn(s) ==
    \A keycode \in { "Left", "Right" } :
        /\ handle_keypress(s, keycode, { }) =
               zoom_adjust(change_file_rel(s, ArrowSign(keycode)))
        /\ handle_keypress(s, keycode, { }).file_index # s.file_index

\* C25: immediately after zoom_adjust with an image present is_adjusted()
\* holds, for every image size and output size; hence after a file change by
\* an arrow key or a mouse click, which ends with zoom_adjust, the next
\* Left/Right arrow key changes the file again instead of panning.
C25_AdjustedAfterZoomAdjust ==
    /\ image # None =>
           /\ is_adjusted(zoom_adjust(State))
           /\ \A isize \in TriedImageSizes, osize \in TriedOutputSizes :
                  is_adjusted(zoom_adjust(Resized(isize, osize)))
    /\ \A r \in FileChangesByArrowOrClick :
           /\ is_adjusted(r)
           /\ ArrowsAdvanceIn(r)

\* an image is shown enlarged, so that the arrows pan; a click leads to the
\* previous file, larger than the output and fitted to it, and from there the
\* arrows change the file again
C25_Witness ==
    /\ image # None
    /\ ~is_adjusted(State)
    /\ handle_keypress(State, "Right", { }).file_index = file_index
    /\ LET r == handle_mouse_release(State, "Left")
       IN  /\ r \in FileChangesByArrowOrClick
           /\ r.image # None
           /\ r.image[1].width > r.output_size[1]
           /\ RLt(r.zoom, R(1))
           /\ is_adjusted(r)
           /\ ArrowsAdvanceIn(r)

\* z lies in [0.001, 1000]
ZoomInRange(z) == RLe(ZOOM_MIN, z) /\ RLe(z, ZOOM_MAX)

\* images more than a thousand times as wide or as high as a small window
HugeImageSizes == { << 2001, 1 >>, << 3, 3000 >> }
SmallOutputSizes == { << 1, 1 >>, << 2, 2 >> }

\* C26, as claimed: in every reachable state the zoom factor lies in [0.001,
\* 1000]: it starts at 1 and no set_zoom, zoom_in, zoom_out, zoom_adjust (for
\* any image size and output size), scroll or file change takes it outside
\* that range.
C26_ZoomWithinRange ==
    /\ ZoomInRange(zoom)
    /\ ~panicked => \A r \in OperationOutcomes : ZoomInRange(r.zoom)
    /\ image # None =>
           \A isize \in TriedImageSizes \cup HugeImageSizes,
              osize \in TriedOutputSizes \cup SmallOutputSizes :
               ZoomInRange(zoom_adjust(Resized(isize, osize)).zoom)

\* the pointer positions the probe is tried at, beside the ones of the events
ProbePositions == MousePositions \cup { << 6, 3 >>, << 4, 2 >>, << 0, 0 >>, << 7, 4 >> }

\* the probe of state s, when set, is at a pixel of the image of s
ProbeIsPixel(s) ==
    (s.image # None /\ s.image[1].pixel_info # None) =>
        LET at == s.image[1].pixel_info[1][1]
        IN  /\ 0 <= at[1] /\ at[1] < s.image[1].width
            /\ 0 <= at[2] /\ at[2] < s.image[1].height

\* the pointer at pos maps into the image: 0 <= x < width and 0 <= y < height
MapsIntoImage(pos) ==
    /\ image # None
    /\ LET c == ImagePointOf(<< R(pos[1]), R(pos[2]) >>)
       IN  /\ RLe(R(0), c[1]) /\ RLt(c[1], R(image[1].width))
           /\ RLe(R(0), c[2]) /\ RLt(c[2], R(image[1].height))

\* C27, as claimed: whenever the pixel probe is set (Ctrl held while the
\* pointer moves without the left button), its stored coordinate (x, y) is a
\* pixel of the current image, 0 <= x < width and 0 <= y < height, and the
\* probe is not updated when the pointer maps outside the image.
C27_ProbeIsValidPixel ==
    /\ ProbeIsPixel(State)
    /\ \A pos \in ProbePositions :
           LET r == handle_mouse_move(State, FALSE, pos, TRUE)
           IN  /\ ProbeIsPixel(r)
               /\ ~MapsIntoImage(pos) => r = State

=============================================================================
